---- MODULE Spec2Model ----
(***************************************************************************)
(* EthosAuditLogger (src/ethos-guard-ml/audit_logger_core.py): an          *)
(* in-memory audit log of prediction records, each sealed with the SHA-256 *)
(* digest of its canonical JSON form, with an integrity re-verification    *)
(* pass and a per-group prediction tally (run_drift_check).                *)
(*                                                                         *)
(* Python values are tagged records [t, n, s, el]: t is the Python type,   *)
(* n the value of an int, s the value of a str, el the items of a list or  *)
(* the (key, value) items of a dict in insertion order.  A Python dict is  *)
(* therefore a sequence of [k, v] records with distinct keys.              *)
(*                                                                         *)
(* hashlib.sha256 is modelled as an ideal (collision-free) digest: the     *)
(* digest of a string is a tag wrapped around that string.  Everything     *)
(* before the digest (json.dumps with sort_keys=True) is computed.         *)
(*                                                                         *)
(* The file uses typing.List on line 44 without importing it, so the class *)
(* body raises NameError when the file is run as it stands.  The methods   *)
(* are modelled as written, as they behave once that name resolves.        *)
(***************************************************************************)
EXTENDS Integers, Sequences, FiniteSets, TLC

VARIABLES
    audit_log,          \* self.audit_log: the list of sealed entries
    call,               \* the public method that ran last
    ret,                \* what that call returned or raised
    logs,               \* run_drift_check: the list it examined
    mismatches,         \* run_drift_check: positions at which line 60 printed a failure
    prediction_counts,  \* run_drift_check: the tally of lines 64-73
    tampered,           \* positions of audit_log edited by the environment
    pc,                 \* a run_drift_check running in another thread: where it is
    idx,                \* that run's list-iterator position (0-based, as in Python)
    verified,           \* the positions that run's first loop examined, in order
    tabulated,          \* the positions that run's second loop counted, in order
    args,               \* log_prediction: the arguments of the last call
    sealIn,             \* two entries handed to _generate_verifiable_hash
    sealOut             \* the two digests it returned

vars == <<audit_log, call, ret, logs, mismatches, prediction_counts, tampered,
          pc, idx, verified, tabulated, args, sealIn, sealOut>>

-----------------------------------------------------------------------------
(* Bounds *)

MaxLog == 2     \* entries appended in a run
MaxTime == 2    \* values the millisecond clock can return: 1..MaxTime

-----------------------------------------------------------------------------
(* Python values *)

PyInt(i) == [t |-> "int", n |-> i, s |-> "", el |-> <<>>]
PyStrV(x) == [t |-> "str", n |-> 0, s |-> x, el |-> <<>>]
PyList(xs) == [t |-> "list", n |-> 0, s |-> "", el |-> xs]
PyDict(items) == [t |-> "dict", n |-> 0, s |-> "", el |-> items]
PySet(xs) == [t |-> "set", n |-> 0, s |-> "", el |-> xs]
KV(key, val) == [k |-> key, v |-> val]

\* d[key] for a dict d (its items) that has the key
Get(d, key) == d[CHOOSE i \in DOMAIN d : d[i].k = key].v

\* d[key] = val for a key d already has: the item keeps its place
SetKey(d, key, val) == [i \in DOMAIN d |-> IF d[i].k = key THEN KV(key, val) ELSE d[i]]

\* Python's == on values: dicts compare as mappings, whatever the insertion
\* order; everything else compares by type and content.
RECURSIVE PyEq(_, _)
PyEq(a, b) ==
    /\ a.t = b.t
    /\ a.n = b.n
    /\ a.s = b.s
    /\ Len(a.el) = Len(b.el)
    /\ IF a.t = "dict"
       THEN \A i \in DOMAIN a.el : \E j \in DOMAIN b.el :
                a.el[i].k = b.el[j].k /\ PyEq(a.el[i].v, b.el[j].v)
       ELSE \A i \in DOMAIN a.el : PyEq(a.el[i], b.el[i])

-----------------------------------------------------------------------------
(* str(int), the decimal digits *)

Digits == <<"0", "1", "2", "3", "4", "5", "6", "7", "8", "9">>

RECURSIVE IntStr(_)
IntStr(i) == IF i < 10 THEN Digits[i + 1]
             ELSE IntStr(i \div 10) \o Digits[(i % 10) + 1]

-----------------------------------------------------------------------------
(* json.dumps(entry, sort_keys=True) *)

\* The keys that occur, in the order Python's str < puts them (code points).
KeyOrder == <<"a", "b", "c", "hash", "input_data", "model_id",
              "prediction_output", "sensitive_group", "timestamp">>

KeyRank == [key \in {KeyOrder[i] : i \in DOMAIN KeyOrder} |->
                CHOOSE i \in DOMAIN KeyOrder : KeyOrder[i] = key]

StrLess(x, y) == KeyRank[x] < KeyRank[y]

\* a dump that keeps the insertion order
SortKeysUnsorted(items) == items

\* an item put in its place in a list of items sorted by key
RECURSIVE SortedInsert(_, _)
SortedInsert(it, sorted) ==
    IF sorted = <<>> THEN <<it>>
    ELSE IF StrLess(it.k, Head(sorted).k) THEN <<it>> \o sorted
    ELSE <<Head(sorted)>> \o SortedInsert(it, Tail(sorted))

\* sort_keys=True: the items of a dict ordered by key
RECURSIVE SortKeys(_)
SortKeys(items) ==
    IF items = <<>> THEN <<>>
    ELSE SortedInsert(Head(items), SortKeys(Tail(items)))

\* json.dumps raises TypeError on a value that is no JSON type
RECURSIVE Serializable(_)
Serializable(v) ==
    CASE v.t \in {"int", "str"} -> TRUE
      [] v.t = "list" -> \A i \in DOMAIN v.el : Serializable(v.el[i])
      [] v.t = "dict" -> \A i \in DOMAIN v.el : Serializable(v.el[i].v)
      [] OTHER -> FALSE

RECURSIVE Dumps(_)
RECURSIVE DumpsList(_)
RECURSIVE DumpsItems(_)

DumpsList(xs) ==
    IF xs = <<>> THEN ""
    ELSE Dumps(Head(xs)) \o (IF Len(xs) > 1 THEN ", " \o DumpsList(Tail(xs)) ELSE "")

DumpsItems(items) ==
    IF items = <<>> THEN ""
    ELSE "\"" \o Head(items).k \o "\": " \o Dumps(Head(items).v)
         \o (IF Len(items) > 1 THEN ", " \o DumpsItems(Tail(items)) ELSE "")

Dumps(v) ==
    CASE v.t = "int" -> IntStr(v.n)
      [] v.t = "str" -> "\"" \o v.s \o "\""
      [] v.t = "list" -> "[" \o DumpsList(v.el) \o "]"
      [] v.t = "dict" -> "{" \o DumpsItems(SortKeys(v.el)) \o "}"

\* hashlib.sha256(...).hexdigest(), as an ideal digest
Sha256Hex(text) == "sha256:" \o text

-----------------------------------------------------------------------------
(* str(prediction), the tally's key *)

RECURSIVE PyRepr(_)
RECURSIVE ReprList(_)
RECURSIVE ReprItems(_)

ReprList(xs) ==
    IF xs = <<>> THEN ""
    ELSE PyRepr(Head(xs)) \o (IF Len(xs) > 1 THEN ", " \o ReprList(Tail(xs)) ELSE "")

ReprItems(items) ==
    IF items = <<>> THEN ""
    ELSE "'" \o Head(items).k \o "': " \o PyRepr(Head(items).v)
         \o (IF Len(items) > 1 THEN ", " \o ReprItems(Tail(items)) ELSE "")

PyRepr(v) ==
    CASE v.t = "int" -> IntStr(v.n)
      [] v.t = "str" -> "'" \o v.s \o "'"
      [] v.t = "list" -> "[" \o ReprList(v.el) \o "]"
      [] v.t = "dict" -> "{" \o ReprItems(v.el) \o "}"

PyStr(v) == IF v.t = "str" THEN v.s ELSE PyRepr(v)

-----------------------------------------------------------------------------
(* EthosAuditLogger *)

model_id == "CreditScoreV1"

\* a placeholder other than the one verification writes
HashPlaceholderWrong == "0"

\* the placeholder of line 20, which line 56 writes again
HashPlaceholder == ""

create_log_entry(input_data, prediction, user_group, now) ==
    << KV("timestamp", PyInt(now)),
       KV("model_id", PyStrV(model_id)),
       KV("input_data", input_data),
       KV("prediction_output", prediction),
       KV("sensitive_group", PyStrV(user_group)),
       KV("hash", PyStrV(HashPlaceholder)) >>

\* a digest that leaves the group tag out of the hashed content
generate_verifiable_hash_no_group(entry) ==
    Sha256Hex(Dumps(PyDict(SelectSeq(entry, LAMBDA it : it.k # "sensitive_group"))))

generate_verifiable_hash(entry) == Sha256Hex(Dumps(PyDict(entry)))

\* a store that puts the newest entry first
ListPrepend(list, entry) == <<entry>> \o list

\* self.audit_log.append(entry)
ListAppend(list, entry) == Append(list, entry)

\* lines 53-59: the stored hash of an entry differs from the recomputed one
HashMismatch(entry) ==
    LET stored_hash == Get(entry, "hash")
        entry_copy == SetKey(entry, "hash", PyStrV(""))
        re_calculated_hash == PyStrV(generate_verifiable_hash(entry_copy))
    IN  ~PyEq(stored_hash, re_calculated_hash)

\* lines 52-61: the first loop from position i on; it returns at the first
\* mismatch, after printing one failure line
RECURSIVE VerifyPass(_, _)
VerifyPass(list, i) ==
    IF i > Len(list) THEN [failed |-> FALSE, printed |-> <<>>]
    ELSE IF HashMismatch(list[i]) THEN [failed |-> TRUE, printed |-> <<i>>]
    ELSE VerifyPass(list, i + 1)

NoCounts == [g \in {} |-> [p \in {} |-> 0]]

\* lines 66-73: one entry added to the tally
Tally(counts, entry) ==
    LET group == Get(entry, "sensitive_group").s
        prediction == Get(entry, "prediction_output")
        pred_key == PyStr(prediction)
        old == IF group \in DOMAIN counts THEN counts[group] ELSE [p \in {} |-> 0]
        new == [p \in DOMAIN old \cup {pred_key} |->
                   IF p = pred_key
                   THEN (IF p \in DOMAIN old THEN old[p] ELSE 0) + 1
                   ELSE old[p]]
    IN  [g \in DOMAIN counts \cup {group} |-> IF g = group THEN new ELSE counts[g]]

\* lines 64-73: the second loop from position i on
RECURSIVE TabulatePass(_, _, _)
TabulatePass(list, i, counts) ==
    IF i > Len(list) THEN counts
    ELSE TabulatePass(list, i + 1, Tally(counts, list[i]))

-----------------------------------------------------------------------------
(* Inputs *)

Features == PyDict(<<KV("a", PyInt(1)), KV("b", PyInt(2))>>)
FeaturesOther == PyDict(<<KV("a", PyInt(2)), KV("b", PyInt(1))>>)
Unserializable == PyDict(<<KV("a", PySet(<<PyInt(1)>>))>>)

PredAB == PyDict(<<KV("a", PyInt(1)), KV("b", PyInt(0))>>)
PredBA == PyDict(<<KV("b", PyInt(0)), KV("a", PyInt(1))>>)

InputDatas == {Features, Unserializable}
Predictions == {PyInt(1), PredAB, PredBA}
Groups == {"A", ""}
Times == 1..MaxTime

NoArgs == [input_data |-> PyInt(0), user_group |-> ""]

\* historical_logs: None, or a list the caller passes
NoneArg == [given |-> FALSE, list |-> <<>>]
Given(list) == [given |-> TRUE, list |-> list]

-----------------------------------------------------------------------------
(* The state after the constructor *)

Init ==
    /\ audit_log = <<>>
    /\ call = "init"
    /\ ret = "None"
    /\ logs = <<>>
    /\ mismatches = <<>>
    /\ prediction_counts = NoCounts
    /\ tampered = {}
    /\ pc = "idle"
    /\ idx = 0
    /\ verified = <<>>
    /\ tabulated = <<>>
    /\ args = NoArgs
    /\ sealIn = <<>>
    /\ sealOut = <<>>

-----------------------------------------------------------------------------
(* The public methods, each call one step *)

\* log_prediction (lines 30-42); now is what time.time() returns.  json.dumps
\* raises on line 36, before the append of line 39.
LogPrediction(input_data, prediction, user_group, now) ==
    /\ Len(audit_log) < MaxLog
    /\ LET entry == create_log_entry(input_data, prediction, user_group, now)
       IN  IF Serializable(PyDict(entry))
           THEN /\ audit_log' = ListAppend(audit_log,
                        SetKey(entry, "hash", PyStrV(generate_verifiable_hash(entry))))
                /\ ret' = "None"
           ELSE /\ audit_log' = audit_log
                /\ ret' = "TypeError"
    /\ call' = "log_prediction"
    /\ args' = [input_data |-> input_data, user_group |-> user_group]
    /\ logs' = <<>>
    /\ mismatches' = <<>>
    /\ prediction_counts' = NoCounts
    /\ UNCHANGED <<tampered, pc, idx, verified, tabulated, sealIn, sealOut>>

\* run_drift_check (lines 44-77): False at the first mismatch, otherwise the
\* tally is built and printed and the call falls off the end (None).
RunDriftCheck(historical_logs) ==
    /\ LET list == IF historical_logs.given THEN historical_logs.list ELSE audit_log
           pass == VerifyPass(list, 1)
       IN  /\ logs' = list
           /\ mismatches' = pass.printed
           /\ IF pass.failed
              THEN /\ ret' = "False"
                   /\ prediction_counts' = NoCounts
              ELSE /\ ret' = "None"
                   /\ prediction_counts' = TabulatePass(list, 1, NoCounts)
    /\ call' = "run_drift_check"
    /\ args' = NoArgs
    /\ UNCHANGED <<audit_log, tampered, pc, idx, verified, tabulated, sealIn, sealOut>>

\* what a caller passes as historical_logs: None, or the log without its newest entry
HistoricalLogs == {NoneArg} \cup {Given(SubSeq(audit_log, 1, Len(audit_log) - 1))}

Next ==
    \/ \E d \in InputDatas, p \in Predictions, g \in Groups, t \in Times :
            LogPrediction(d, p, g, t)
    \/ \E h \in HistoricalLogs : RunDriftCheck(h)

Spec == Init /\ [][Next]_vars

-----------------------------------------------------------------------------
(* The log edited behind the logger's back: self.audit_log is a plain list *)
(* of dicts (line 10), so any holder of it can assign to an entry's field. *)

TamperGroups == {"A"}
TamperPredictions == {PyInt(1)}

TamperValues(field) ==
    CASE field = "timestamp" -> {PyInt(t) : t \in Times}
      [] field = "model_id" -> {PyStrV("CreditScoreV2")}
      [] field = "input_data" -> {FeaturesOther}
      [] field = "prediction_output" -> {PyInt(0), PyStrV("1"), PyList(<<PyInt(1)>>)}
      [] field = "sensitive_group" -> {PyStrV("B")}

TamperFields == {"timestamp", "model_id", "input_data", "prediction_output",
                 "sensitive_group"}

\* audit_log[k][field] = val, for a val that differs from the stored one; each
\* entry is edited at most once
Tamper(k, field, val) ==
    /\ k \in DOMAIN audit_log
    /\ k \notin tampered
    /\ ~PyEq(Get(audit_log[k], field), val)
    /\ audit_log' = [audit_log EXCEPT ![k] = SetKey(@, field, val)]
    /\ tampered' = tampered \cup {k}
    /\ call' = "tamper"
    /\ ret' = "None"
    /\ args' = NoArgs
    /\ logs' = <<>>
    /\ mismatches' = <<>>
    /\ prediction_counts' = NoCounts
    /\ UNCHANGED <<pc, idx, verified, tabulated, sealIn, sealOut>>

NextTamper ==
    \/ \E p \in TamperPredictions, g \in TamperGroups, t \in Times :
            LogPrediction(Features, p, g, t)
    \/ \E h \in HistoricalLogs : RunDriftCheck(h)
    \/ \E k \in 1..MaxLog, f \in TamperFields : \E val \in TamperValues(f) :
            Tamper(k, f, val)

SpecTamper == Init /\ [][NextTamper]_vars

-----------------------------------------------------------------------------
(* run_drift_check() in one thread, statement by statement, while another  *)
(* thread calls log_prediction.  logs is self.audit_log itself (line 49),  *)
(* and a list iterator reads the list's current length at every step.      *)

DriftStart ==
    /\ pc = "idle"
    /\ pc' = "verify"
    /\ idx' = 0
    /\ UNCHANGED <<audit_log, call, ret, logs, mismatches, prediction_counts,
                   tampered, verified, tabulated, args, sealIn, sealOut>>

\* one iteration of the loop of lines 52-61, or its end
DriftVerifyStep ==
    /\ pc = "verify"
    /\ IF idx < Len(audit_log)
       THEN /\ verified' = Append(verified, idx + 1)
            /\ IF HashMismatch(audit_log[idx + 1])
               THEN pc' = "returned False" /\ idx' = idx
               ELSE pc' = pc /\ idx' = idx + 1
       ELSE /\ pc' = "tabulate"
            /\ idx' = 0
            /\ verified' = verified
    /\ UNCHANGED <<audit_log, call, ret, logs, mismatches, prediction_counts,
                   tampered, tabulated, args, sealIn, sealOut>>

\* one iteration of the loop of lines 65-73, or its end and the return
DriftTabulateStep ==
    /\ pc = "tabulate"
    /\ IF idx < Len(audit_log)
       THEN /\ tabulated' = Append(tabulated, idx + 1)
            /\ idx' = idx + 1
            /\ pc' = pc
       ELSE /\ pc' = "returned None"
            /\ idx' = idx
            /\ tabulated' = tabulated
    /\ UNCHANGED <<audit_log, call, ret, logs, mismatches, prediction_counts,
                   tampered, verified, args, sealIn, sealOut>>

ConcGroups == {"A", "B"}

NextConc ==
    \/ \E g \in ConcGroups, t \in Times : LogPrediction(Features, PyInt(1), g, t)
    \/ DriftStart
    \/ DriftVerifyStep
    \/ DriftTabulateStep

SpecConc == Init /\ [][NextConc]_vars

-----------------------------------------------------------------------------
(* _generate_verifiable_hash as a function of the dict it is given *)

FeaturesBA == PyDict(<<KV("b", PyInt(2)), KV("a", PyInt(1))>>)
Nested == PyDict(<<KV("a", PyInt(1)),
                   KV("b", PyDict(<<KV("a", PyInt(1)), KV("c", PyInt(2))>>))>>)
NestedReordered == PyDict(<<KV("b", PyDict(<<KV("c", PyInt(2)), KV("a", PyInt(1))>>)),
                            KV("a", PyInt(1))>>)

SealInputs == {Features, FeaturesBA, FeaturesOther, Nested, NestedReordered}

\* the entries line 36 hands to _generate_verifiable_hash
SealEntries == {create_log_entry(d, PyInt(1), "A", 1) : d \in SealInputs}

InsertionOrders(n) == {f \in [1..n -> 1..n] : \A i, j \in 1..n : i # j => f[i] # f[j]}

\* the same items inserted in another order
Reordered(d, f) == [i \in DOMAIN d |-> d[f[i]]]

InitSeal ==
    /\ audit_log = <<>>
    /\ call = "init"
    /\ ret = "None"
    /\ logs = <<>>
    /\ mismatches = <<>>
    /\ prediction_counts = NoCounts
    /\ tampered = {}
    /\ pc = "idle"
    /\ idx = 0
    /\ verified = <<>>
    /\ tabulated = <<>>
    /\ args = NoArgs
    /\ \E x \in SealEntries, y \in SealEntries, f \in InsertionOrders(6) :
            sealIn = <<x, Reordered(y, f)>>
    /\ sealOut = <<>>

Seal ==
    /\ call = "init"
    /\ call' = "seal"
    /\ sealOut' = <<generate_verifiable_hash(sealIn[1]), generate_verifiable_hash(sealIn[2])>>
    /\ UNCHANGED <<audit_log, ret, logs, mismatches, prediction_counts, tampered,
                   pc, idx, verified, tabulated, args, sealIn>>

NextSeal == Seal

SpecSeal == InitSeal /\ [][NextSeal]_vars

-----------------------------------------------------------------------------
(* Properties *)

\* the digest of an entry's canonical form with its hash cleared to ""
SealOf(entry) == generate_verifiable_hash(SetKey(entry, "hash", PyStrV("")))

Timestamp(entry) == Get(entry, "timestamp").n
Group(entry) == Get(entry, "sensitive_group").s
Prediction(entry) == Get(entry, "prediction_output")

\* the positions of a list whose stored hash is not the recomputed one
Mismatching(list) == {k \in DOMAIN list : Get(list[k], "hash") # PyStrV(SealOf(list[k]))}

RECURSIVE SumOver(_, _)
SumOver(f, keys) ==
    IF keys = {} THEN 0
    ELSE LET x == CHOOSE x \in keys : TRUE IN f[x] + SumOver(f, keys \ {x})

\* C1: with only log_prediction and run_drift_check acting on the log, every
\* stored record has a non-empty hash equal to the digest of the canonical form
\* of that record with its hash cleared to "", and a re-verification of the
\* log reports no mismatch.
HashInvariant ==
    /\ \A i \in DOMAIN audit_log :
          /\ Get(audit_log[i], "hash").t = "str"
          /\ Get(audit_log[i], "hash").s # ""
          /\ Get(audit_log[i], "hash").s = SealOf(audit_log[i])
    /\ call = "run_drift_check" => (ret # "False" /\ mismatches = <<>>)

HashInvariantWitness ==
    /\ call = "run_drift_check"
    /\ Len(logs) = 2
    /\ logs = audit_log
    /\ ret = "None"
    /\ Get(logs[2], "hash").s = SealOf(logs[2])

NoShortCircuit ==
    call = "run_drift_check" =>
        {mismatches[i] : i \in DOMAIN mismatches} = Mismatching(logs)

\* C4: the log before each public operation is an unchanged prefix of the log
\* after it: a log_prediction that returns adds exactly one record at the end,
\* one that raises and run_drift_check leave the log as it was.
AppendOnly ==
    [][ /\ Len(audit_log') >= Len(audit_log)
        /\ SubSeq(audit_log', 1, Len(audit_log)) = audit_log
        /\ (call' = "log_prediction" /\ ret' = "None")
               => Len(audit_log') = Len(audit_log) + 1
        /\ (call' = "log_prediction" /\ ret' # "None") => audit_log' = audit_log
        /\ call' = "run_drift_check" => audit_log' = audit_log ]_vars

AppendOnlyWitness ==
    /\ Len(audit_log) = 2
    /\ call = "run_drift_check"
    /\ logs = audit_log

\* C5: the integrity check returns true exactly when no stored hash differs
\* from its recomputed digest, and false exactly when at least one does.
ValidIffNoMismatch ==
    call = "run_drift_check" =>
        /\ ret = "True" <=> Mismatching(logs) = {}
        /\ ret = "False" <=> Mismatching(logs) # {}

\* C6: two dicts holding the same key-value pairs at every nesting level,
\* inserted in whatever order, get the same digest.
SealDeterminism ==
    (call = "seal" /\ PyEq(PyDict(sealIn[1]), PyDict(sealIn[2])))
        => sealOut[1] = sealOut[2]

SealDeterminismWitness ==
    /\ call = "seal"
    /\ PyEq(PyDict(sealIn[1]), PyDict(sealIn[2]))
    /\ sealIn[1][1].k # sealIn[2][1].k
    /\ Get(sealIn[1], "input_data") = Nested
    /\ Get(sealIn[2], "input_data") = NestedReordered
    /\ sealOut[1] = sealOut[2]

\* C7: a log_prediction call whose sensitive_group is empty or whose input_data
\* cannot be serialized raises to the caller and leaves the log as it was.
ValidationRejects ==
    [][ (call' = "log_prediction"
            /\ (args'.user_group = "" \/ ~Serializable(args'.input_data)))
        => (ret' # "None" /\ audit_log' = audit_log) ]_vars

\* C8: the timestamps of the stored records never decrease in insertion order,
\* whatever the clock returns.
TimestampsMonotone ==
    \A i, j \in DOMAIN audit_log :
        i < j => Timestamp(audit_log[i]) <= Timestamp(audit_log[j])

\* C9: the tally of a check that completes has, for each record, under the
\* record's group and prediction key, the number of records of that group
\* whose prediction is structurally equal to it; it has no other group or key,
\* and its counts add up to the number of records.
DriftAggregation ==
    (call = "run_drift_check" /\ ret = "None") =>
        /\ DOMAIN prediction_counts = {Group(logs[i]) : i \in DOMAIN logs}
        /\ \A g \in DOMAIN prediction_counts :
              DOMAIN prediction_counts[g] =
                  {PyStr(Prediction(logs[i])) : i \in {j \in DOMAIN logs : Group(logs[j]) = g}}
        /\ \A i \in DOMAIN logs :
              prediction_counts[Group(logs[i])][PyStr(Prediction(logs[i]))] =
                  Cardinality({j \in DOMAIN logs :
                      /\ Group(logs[j]) = Group(logs[i])
                      /\ PyEq(Prediction(logs[j]), Prediction(logs[i]))})
        /\ SumOver([g \in DOMAIN prediction_counts |->
                       SumOver(prediction_counts[g], DOMAIN prediction_counts[g])],
                   DOMAIN prediction_counts) = Len(logs)

\* C10: a run_drift_check that completes while log_prediction runs in another
\* thread has tabulated exactly the records it verified.
SnapshotConsistency ==
    pc = "returned None" => tabulated = verified

====
